---- MODULE Spec2Model ----
(***************************************************************************)
(* The single-player blackjack round engine of blackjack_engine.py:        *)
(* play_round with its helpers, one step per policy consultation.          *)
(*                                                                         *)
(* Cards are the integers of the source's encoding (11 = Ace).  The shoe   *)
(* is a sequence drawn from its last element (list.pop()).  Money is kept  *)
(* in integers: base bets are even, so bet * 1.5 is (bet * 3) \div 2       *)
(* exactly.  An Optional value is <<>> (None) or <<v>>.  hand_index is     *)
(* 0-based as in the source; player_hands[hand_index + 1] is the hand.     *)
(***************************************************************************)
EXTENDS Integers, Sequences, FiniteSets, TLC

\* ---- bounds of the model ----
\* longest shoe of arbitrary cards (played with the default bet, no log)
MaxShoe == 8

\* longest shoe played with every base bet, with and without the log
MaxShortShoe == 6

\* longest shoe that keeps supplying one rank
MaxSameRankShoe == 10

\* longest hand given to the hand evaluator on its own
MaxHand == 4

Ranks == {6, 10, 11}

BaseBets == {2, 4}

DealerCardsArgs ==
    {<<10, 11>>, <<10, 10>>, <<10, 6>>, <<6, 10, 10>>, <<6, 6, 6>>, <<6, 11>>}

\* ---- configuration constants ----
DEALER_HITS_SOFT_17 == FALSE

MAX_SPLITS == 3

\* what the policy callback may answer (before .upper())
PolicyAnswers == {"H", "S", "D", "P", "R", "h", "p", "x"}

upper(a) ==
    CASE a = "h" -> "H"
      [] a = "p" -> "P"
      [] a = "x" -> "X"
      [] OTHER -> a

None == <<>>

Some(v) == <<v>>

SeqsUpTo(S, n) == UNION {[1..k -> S] : k \in 0..n}

SameRankShoes == {[k \in 1..n |-> r] : r \in Ranks, n \in 0..MaxSameRankShoe}

\* longest shoe of arbitrary cards of a round played to its end
MaxFairShoe == 7

\* the shoes of a stand-alone dealer play
MaxDealerShoe == 3

DealerShoeRanks == {2, 5, 10, 11}

\* the shoes of the end-to-end scenario: the draws 10, 6, 7, 9 come off the
\* end of the list; alone, as the list written in draw order, and with one
\* or two further cards of any rank beneath them
AllRanks == 2..11

ScenarioShoes ==
    {<<9, 7, 6, 10>>, <<10, 6, 7, 9>>}
        \cup {<<c, 9, 7, 6, 10>> : c \in AllRanks}
        \cup {<<b, c, 9, 7, 6, 10>> : b, c \in AllRanks}

\* the rounds played: <<shoe, base_bet, log>>
RoundInputs ==
    ((SeqsUpTo(Ranks, MaxShoe) \cup SameRankShoes \cup ScenarioShoes)
         \X {2} \X {FALSE})
        \cup (SeqsUpTo(Ranks, MaxShortShoe) \X BaseBets \X BOOLEAN)

\* ---- card & shoe utilities ----
\* variant: the card is taken from the other end of the list
draw_card_front(s) ==
    [card |-> s[1], shoe |-> Tail(s)]

\* variant: a draw returns the last card of the shoe and leaves it there
draw_card_peek(s) ==
    [card |-> s[Len(s)], shoe |-> s]

draw_card(s) ==
    [card |-> s[Len(s)], shoe |-> SubSeq(s, 1, Len(s) - 1)]

\* ---- hand evaluation ----
RECURSIVE sum(_)
sum(hand) ==
    IF hand = <<>> THEN 0 ELSE hand[1] + sum(Tail(hand))

count11(hand) == Cardinality({k \in 1..Len(hand) : hand[k] = 11})

\* variant: an Ace is already downgraded at a total of exactly 21
RECURSIVE downgrade_at_21(_, _)
downgrade_at_21(total, aces_as_11) ==
    IF total >= 21 /\ aces_as_11 > 0
    THEN downgrade_at_21(total - 10, aces_as_11 - 1)
    ELSE [total |-> total, aces_as_11 |-> aces_as_11]

RECURSIVE downgrade(_, _)
downgrade(total, aces_as_11) ==
    IF total > 21 /\ aces_as_11 > 0
    THEN downgrade(total - 10, aces_as_11 - 1)
    ELSE [total |-> total, aces_as_11 |-> aces_as_11]

\* variant: a hand is soft whenever it holds an Ace and is not bust
hand_value_soft_any_ace(hand) ==
    LET r == downgrade(sum(hand), count11(hand))
    IN  [total |-> r.total, is_soft |-> (count11(hand) > 0 /\ r.total <= 21)]

hand_value(hand) ==
    LET r == downgrade(sum(hand), count11(hand))
    IN  [total |-> r.total, is_soft |-> (r.aces_as_11 > 0 /\ r.total <= 21)]

\* variant: every hand totalling 21 counts as a natural
is_blackjack_any_length(hand) == hand_value(hand).total = 21

is_blackjack(hand) ==
    IF Len(hand) # 2 THEN FALSE ELSE hand_value(hand).total = 21

can_split(hand) == Len(hand) = 2 /\ hand[1] = hand[2]

\* ---- data structures ----
HandState(cards, bet, bj, from_split) ==
    [cards |-> cards, bet |-> bet, is_finished |-> FALSE, is_busted |-> FALSE,
     is_blackjack |-> bj, is_split_ace |-> FALSE, result |-> None,
     from_split |-> from_split]

\* variant: the dealer also hits a total of 17
dealer_stops_above_17(hits_soft_17, dealer) ==
    LET v == hand_value(dealer)
    IN  v.total > 21 \/ v.total > 17

\* variant: the dealer already stands on 16
dealer_stops_at_16(hits_soft_17, dealer) ==
    LET v == hand_value(dealer)
    IN  v.total > 21 \/ v.total >= 16

\* variant: the table flag is not consulted, the dealer stands on every 17
dealer_stops_flag_ignored(hits_soft_17, dealer) ==
    LET v == hand_value(dealer)
    IN  v.total > 21 \/ v.total >= 17

\* ---- dealer play: whether play_dealer leaves its loop on these cards ----
\* hits_soft_17 is the value the module global DEALER_HITS_SOFT_17 has when
\* play_dealer runs
dealer_stops(hits_soft_17, dealer) ==
    LET v == hand_value(dealer)
    IN  \/ v.total > 21
        \/ IF ~hits_soft_17
           THEN v.total >= 17
           ELSE v.total > 17 \/ (v.total = 17 /\ ~v.is_soft)

\* ---- actions on a hand; each yields the shoe, the hand(s) and whether
\*      draw_card raised ----
\* variant: a hit on an empty shoe is swallowed instead of raising
apply_action_hit_no_raise(sh, hand) ==
    IF sh = <<>>
    THEN [err |-> FALSE, shoe |-> sh, hand |-> hand]
    ELSE LET d == draw_card(sh)
             cards == Append(hand.cards, d.card)
             bust == hand_value(cards).total > 21
         IN  [err |-> FALSE, shoe |-> d.shoe,
              hand |-> [hand EXCEPT !.cards = cards,
                                    !.is_busted = IF bust THEN TRUE ELSE @,
                                    !.is_finished = IF bust THEN TRUE ELSE @]]

\* variant: a hit that reaches exactly 21 already counts as a bust
apply_action_hit_bust_at_21(sh, hand) ==
    IF sh = <<>>
    THEN [err |-> TRUE, shoe |-> sh, hand |-> hand]
    ELSE LET d == draw_card(sh)
             cards == Append(hand.cards, d.card)
             bust == hand_value(cards).total >= 21
         IN  [err |-> FALSE, shoe |-> d.shoe,
              hand |-> [hand EXCEPT !.cards = cards,
                                    !.is_busted = IF bust THEN TRUE ELSE @,
                                    !.is_finished = IF bust THEN TRUE ELSE @]]

apply_action_hit(sh, hand) ==
    IF sh = <<>>
    THEN [err |-> TRUE, shoe |-> sh, hand |-> hand]
    ELSE LET d == draw_card(sh)
             cards == Append(hand.cards, d.card)
             bust == hand_value(cards).total > 21
         IN  [err |-> FALSE, shoe |-> d.shoe,
              hand |-> [hand EXCEPT !.cards = cards,
                                    !.is_busted = IF bust THEN TRUE ELSE @,
                                    !.is_finished = IF bust THEN TRUE ELSE @]]

\* variant: a stand leaves the hand as it is
apply_action_stand_noop(hand) == hand

apply_action_stand(hand) == [hand EXCEPT !.is_finished = TRUE]

\* variant: a surrender gives half the bet back
apply_action_surrender_half(hand) ==
    [hand EXCEPT !.is_finished = TRUE, !.result = Some(-(hand.bet \div 2))]

\* the "R" branch of play_round: surrender is treated as stand
apply_action_surrender(hand) == apply_action_stand(hand)

\* variant: a double ends the hand only when it busts
apply_action_double_as_hit(sh, hand) ==
    IF Len(hand.cards) # 2
    THEN apply_action_hit(sh, hand)
    ELSE IF sh = <<>>
    THEN [err |-> TRUE, shoe |-> sh, hand |-> [hand EXCEPT !.bet = @ * 2]]
    ELSE LET d == draw_card(sh)
             cards == Append(hand.cards, d.card)
             bust == hand_value(cards).total > 21
         IN  [err |-> FALSE, shoe |-> d.shoe,
              hand |-> [hand EXCEPT !.bet = @ * 2,
                                    !.cards = cards,
                                    !.is_busted = IF bust THEN TRUE ELSE @,
                                    !.is_finished = IF bust THEN TRUE ELSE @]]

\* variant: a double raises the bet by one unit instead of doubling it
apply_action_double_adds_unit(sh, hand) ==
    IF Len(hand.cards) # 2
    THEN apply_action_hit(sh, hand)
    ELSE IF sh = <<>>
    THEN [err |-> TRUE, shoe |-> sh, hand |-> [hand EXCEPT !.bet = @ + 1]]
    ELSE LET d == draw_card(sh)
             cards == Append(hand.cards, d.card)
             bust == hand_value(cards).total > 21
         IN  [err |-> FALSE, shoe |-> d.shoe,
              hand |-> [hand EXCEPT !.bet = @ + 1,
                                    !.cards = cards,
                                    !.is_busted = IF bust THEN TRUE ELSE @,
                                    !.is_finished = TRUE]]

\* variant: a double that goes over 21 finishes the hand without marking it
\* busted
apply_action_double_no_bust_flag(sh, hand) ==
    IF Len(hand.cards) # 2
    THEN apply_action_hit(sh, hand)
    ELSE IF sh = <<>>
    THEN [err |-> TRUE, shoe |-> sh, hand |-> [hand EXCEPT !.bet = @ * 2]]
    ELSE LET d == draw_card(sh)
             cards == Append(hand.cards, d.card)
         IN  [err |-> FALSE, shoe |-> d.shoe,
              hand |-> [hand EXCEPT !.bet = @ * 2,
                                    !.cards = cards,
                                    !.is_finished = TRUE]]

apply_action_double(sh, hand) ==
    IF Len(hand.cards) # 2
    THEN apply_action_hit(sh, hand)
    ELSE IF sh = <<>>
    THEN [err |-> TRUE, shoe |-> sh, hand |-> [hand EXCEPT !.bet = @ * 2]]
    ELSE LET d == draw_card(sh)
             cards == Append(hand.cards, d.card)
             bust == hand_value(cards).total > 21
         IN  [err |-> FALSE, shoe |-> d.shoe,
              hand |-> [hand EXCEPT !.bet = @ * 2,
                                    !.cards = cards,
                                    !.is_busted = IF bust THEN TRUE ELSE @,
                                    !.is_finished = TRUE]]

\* the "A,A split rule" test of apply_action_split
is_ace_pair_as_one(card) == card = 1

is_ace_pair(card) == card = 11

existing_splits(hands) ==
    Cardinality({k \in 1..Len(hands) : hands[k].from_split})

InsertAt(hands, pos, h) ==
    SubSeq(hands, 1, pos - 1) \o <<h>> \o SubSeq(hands, pos, Len(hands))

\* variant: the first card drawn goes to the new hand, the second to the
\* acting hand
apply_action_split_draws_swapped(sh, hands, hand_idx) ==
    LET hand == hands[hand_idx + 1]
        card == hand.cards[1]
    IN  IF ~can_split(hand.cards)
        THEN [err |-> FALSE, shoe |-> sh, hands |-> hands]
        ELSE IF existing_splits(hands) >= MAX_SPLITS
        THEN [err |-> FALSE, shoe |-> sh, hands |-> hands]
        ELSE IF sh = <<>>
        THEN [err |-> TRUE, shoe |-> sh, hands |-> hands]
        ELSE
          LET d1 == draw_card(sh)
              cards2 == <<card, d1.card>>
              new_hand == HandState(cards2, hand.bet, is_blackjack(cards2),
                                    TRUE)
          IN  IF d1.shoe = <<>>
              THEN [err |-> TRUE, shoe |-> d1.shoe, hands |-> hands]
              ELSE
                LET d2 == draw_card(d1.shoe)
                    cards1 == <<card, d2.card>>
                    hand1 == [hand EXCEPT !.cards = cards1,
                                          !.is_blackjack = is_blackjack(cards1),
                                          !.from_split = TRUE]
                    ace == is_ace_pair(card)
                    h1 == [hand1 EXCEPT
                             !.is_split_ace = IF ace THEN TRUE ELSE @,
                             !.is_finished = IF ace THEN TRUE ELSE @]
                    h2 == [new_hand EXCEPT
                             !.is_split_ace = IF ace THEN TRUE ELSE @,
                             !.is_finished = IF ace THEN TRUE ELSE @]
                IN  [err |-> FALSE, shoe |-> d2.shoe,
                     hands |-> InsertAt([hands EXCEPT ![hand_idx + 1] = h1],
                                        hand_idx + 2, h2)]

apply_action_split(sh, hands, hand_idx) ==
    LET hand == hands[hand_idx + 1]
        card == hand.cards[1]
    IN  IF ~can_split(hand.cards)
        THEN [err |-> FALSE, shoe |-> sh, hands |-> hands]
        ELSE IF existing_splits(hands) >= MAX_SPLITS
        THEN [err |-> FALSE, shoe |-> sh, hands |-> hands]
        ELSE IF sh = <<>>
        THEN [err |-> TRUE, shoe |-> sh, hands |-> hands]
        ELSE
          LET d1 == draw_card(sh)
              cards1 == <<card, d1.card>>
              hand1 == [hand EXCEPT !.cards = cards1,
                                    !.is_blackjack = is_blackjack(cards1),
                                    !.from_split = TRUE]
          IN  IF d1.shoe = <<>>
              THEN [err |-> TRUE, shoe |-> d1.shoe,
                    hands |-> [hands EXCEPT ![hand_idx + 1] = hand1]]
              ELSE
                LET d2 == draw_card(d1.shoe)
                    cards2 == <<card, d2.card>>
                    new_hand == HandState(cards2, hand1.bet,
                                          is_blackjack(cards2), TRUE)
                    ace == is_ace_pair(card)
                    h1 == [hand1 EXCEPT
                             !.is_split_ace = IF ace THEN TRUE ELSE @,
                             !.is_finished = IF ace THEN TRUE ELSE @]
                    h2 == [new_hand EXCEPT
                             !.is_split_ace = IF ace THEN TRUE ELSE @,
                             !.is_finished = IF ace THEN TRUE ELSE @]
                IN  [err |-> FALSE, shoe |-> d2.shoe,
                     hands |-> InsertAt([hands EXCEPT ![hand_idx + 1] = h1],
                                        hand_idx + 2, h2)]

\* ---- settlement ----
\* variant: the natural payout is tested before the dealer's bust
settle_hand_vs_dealer_natural_first(hand, dealer) ==
    LET player_total == hand_value(hand.cards).total
        dealer_total == hand_value(dealer).total
    IN  IF hand.result # None THEN hand
        ELSE IF hand.is_busted THEN [hand EXCEPT !.result = Some(-hand.bet)]
        ELSE IF hand.is_blackjack /\ ~(Len(dealer) = 2 /\ dealer_total = 21)
        THEN [hand EXCEPT !.result = Some((hand.bet * 3) \div 2)]
        ELSE IF dealer_total > 21 THEN [hand EXCEPT !.result = Some(hand.bet)]
        ELSE IF dealer_total > player_total
        THEN [hand EXCEPT !.result = Some(-hand.bet)]
        ELSE IF dealer_total < player_total
        THEN [hand EXCEPT !.result = Some(hand.bet)]
        ELSE [hand EXCEPT !.result = Some(0)]

\* variant: no test for an already settled hand
settle_hand_vs_dealer_recompute(hand, dealer) ==
    LET player_total == hand_value(hand.cards).total
        dealer_total == hand_value(dealer).total
    IN  IF hand.is_busted THEN [hand EXCEPT !.result = Some(-hand.bet)]
        ELSE IF dealer_total > 21 THEN [hand EXCEPT !.result = Some(hand.bet)]
        ELSE IF hand.is_blackjack /\ ~(Len(dealer) = 2 /\ dealer_total = 21)
        THEN [hand EXCEPT !.result = Some((hand.bet * 3) \div 2)]
        ELSE IF dealer_total > player_total
        THEN [hand EXCEPT !.result = Some(-hand.bet)]
        ELSE IF dealer_total < player_total
        THEN [hand EXCEPT !.result = Some(hand.bet)]
        ELSE [hand EXCEPT !.result = Some(0)]

\* variant: a hand that loses the comparison is also marked busted
settle_hand_vs_dealer_loss_marks_bust(hand, dealer) ==
    LET player_total == hand_value(hand.cards).total
        dealer_total == hand_value(dealer).total
    IN  IF hand.result # None THEN hand
        ELSE IF hand.is_busted THEN [hand EXCEPT !.result = Some(-hand.bet)]
        ELSE IF dealer_total > 21 THEN [hand EXCEPT !.result = Some(hand.bet)]
        ELSE IF hand.is_blackjack /\ ~(Len(dealer) = 2 /\ dealer_total = 21)
        THEN [hand EXCEPT !.result = Some((hand.bet * 3) \div 2)]
        ELSE IF dealer_total > player_total
        THEN [hand EXCEPT !.result = Some(-hand.bet), !.is_busted = TRUE]
        ELSE IF dealer_total < player_total
        THEN [hand EXCEPT !.result = Some(hand.bet)]
        ELSE [hand EXCEPT !.result = Some(0)]

settle_hand_vs_dealer(hand, dealer) ==
    LET player_total == hand_value(hand.cards).total
        dealer_total == hand_value(dealer).total
    IN  IF hand.result # None THEN hand
        ELSE IF hand.is_busted THEN [hand EXCEPT !.result = Some(-hand.bet)]
        ELSE IF dealer_total > 21 THEN [hand EXCEPT !.result = Some(hand.bet)]
        ELSE IF hand.is_blackjack /\ ~(Len(dealer) = 2 /\ dealer_total = 21)
        THEN [hand EXCEPT !.result = Some((hand.bet * 3) \div 2)]
        ELSE IF dealer_total > player_total
        THEN [hand EXCEPT !.result = Some(-hand.bet)]
        ELSE IF dealer_total < player_total
        THEN [hand EXCEPT !.result = Some(hand.bet)]
        ELSE [hand EXCEPT !.result = Some(0)]

\* variant: only the hands marked finished are settled
settle_all_finished_only(hands, dealer) ==
    [k \in 1..Len(hands) |->
        IF hands[k].is_finished THEN settle_hand_vs_dealer(hands[k], dealer)
        ELSE hands[k]]

\* the "Settle all hands" loop of play_round
settle_all(hands, dealer) ==
    [k \in 1..Len(hands) |-> settle_hand_vs_dealer(hands[k], dealer)]

\* variant: only the player's natural ends the round at once
immediate_branch_player_only(player_bj, dealer_has_bj) == player_bj

\* the immediate blackjack check of play_round
immediate_branch(player_bj, dealer_has_bj) == player_bj \/ dealer_has_bj

\* variant: a player natural is paid whatever the dealer holds
immediate_result_no_push(player_bj, dealer_has_bj, bet) ==
    IF player_bj THEN (bet * 3) \div 2 ELSE -bet

immediate_result(player_bj, dealer_has_bj, bet) ==
    IF player_bj /\ ~dealer_has_bj THEN (bet * 3) \div 2
    ELSE IF dealer_has_bj /\ ~player_bj THEN -bet
    ELSE 0

\* variant: a double on more than two cards is taken as a stand
apply_policy_action_invalid_double_stands(action, sh, hands, hand_idx) ==
    LET hand == hands[hand_idx + 1]
        one(r) == [err |-> r.err, shoe |-> r.shoe, brk |-> FALSE,
                   hands |-> [hands EXCEPT ![hand_idx + 1] = r.hand]]
        stand == [err |-> FALSE, shoe |-> sh, brk |-> FALSE,
                  hands |-> [hands EXCEPT
                               ![hand_idx + 1] = apply_action_stand(hand)]]
    IN  CASE action = "H" ->
               IF hand.is_split_ace THEN stand
               ELSE one(apply_action_hit(sh, hand))
          [] action = "S" -> stand
          [] action = "D" ->
               IF Len(hand.cards) = 2 THEN one(apply_action_double(sh, hand))
               ELSE stand
          [] action = "P" ->
               IF can_split(hand.cards)
               THEN LET r == apply_action_split(sh, hands, hand_idx)
                    IN  [err |-> r.err, shoe |-> r.shoe, brk |-> TRUE,
                         hands |-> r.hands]
               ELSE one(apply_action_hit(sh, hand))
          [] action = "R" ->
               [err |-> FALSE, shoe |-> sh, brk |-> FALSE,
                hands |-> [hands EXCEPT
                             ![hand_idx + 1] = apply_action_surrender(hand)]]
          [] OTHER -> stand

\* the dispatch on the (upper-cased) action in play_round's inner loop:
\* yields the shoe, the hand list, whether draw_card raised and whether the
\* inner loop was left by break
apply_policy_action(action, sh, hands, hand_idx) ==
    LET hand == hands[hand_idx + 1]
        one(r) == [err |-> r.err, shoe |-> r.shoe, brk |-> FALSE,
                   hands |-> [hands EXCEPT ![hand_idx + 1] = r.hand]]
        stand == [err |-> FALSE, shoe |-> sh, brk |-> FALSE,
                  hands |-> [hands EXCEPT
                               ![hand_idx + 1] = apply_action_stand(hand)]]
    IN  CASE action = "H" ->
               IF hand.is_split_ace THEN stand
               ELSE one(apply_action_hit(sh, hand))
          [] action = "S" -> stand
          [] action = "D" ->
               IF Len(hand.cards) = 2 THEN one(apply_action_double(sh, hand))
               ELSE one(apply_action_hit(sh, hand))
          [] action = "P" ->
               IF can_split(hand.cards)
               THEN LET r == apply_action_split(sh, hands, hand_idx)
                    IN  [err |-> r.err, shoe |-> r.shoe, brk |-> TRUE,
                         hands |-> r.hands]
               ELSE one(apply_action_hit(sh, hand))
          [] action = "R" ->
               [err |-> FALSE, shoe |-> sh, brk |-> FALSE,
                hands |-> [hands EXCEPT
                             ![hand_idx + 1] = apply_action_surrender(hand)]]
          [] OTHER -> stand

\* variant: the dealer plays whatever the player's hands are
dealer_plays_always(hands) == TRUE

\* the test before the dealer phase of play_round
dealer_plays(hands) == \E k \in 1..Len(hands) : ~hands[k].is_busted

\* ---- the action loop ----
\* variant: the loop enters a hand whether or not it is finished
loop_position_no_skip(hands, hand_idx) ==
    IF hand_idx >= Len(hands) THEN "done" ELSE "enter"

\* play_round, lines 325-334: where the outer loop goes with the cursor on
\* hand_idx: out of the loop, past a finished hand, or into the hand
loop_position(hands, hand_idx) ==
    IF hand_idx >= Len(hands) THEN "done"
    ELSE IF hands[hand_idx + 1].is_finished THEN "skip"
    ELSE "enter"

\* ---- the initial deal ----
\* variant: the cards are dealt alternately to the player and the dealer
initial_deal_alternating(sh) ==
    LET n == Len(sh)
    IN  [player_cards |-> <<sh[n], sh[n - 2]>>,
         dealer_cards |-> <<sh[n - 1], sh[n - 3]>>]

\* play_round, lines 291-292, on a shoe of at least four cards
initial_deal(sh) ==
    LET n == Len(sh)
    IN  [player_cards |-> <<sh[n], sh[n - 1]>>,
         dealer_cards |-> <<sh[n - 2], sh[n - 3]>>]

\* ---- the decision context and the decision log ----
\* play_round, lines 344-351
\* variant: can_split also requires the split cap not to be reached
build_ctx_cap_aware(hand, hand_index, hands) ==
    [player_total |-> hand_value(hand.cards).total,
     player_soft |-> hand_value(hand.cards).is_soft,
     can_split |-> (can_split(hand.cards)
                       /\ existing_splits(hands) < MAX_SPLITS),
     can_double |-> (Len(hand.cards) = 2),
     hand_index |-> hand_index,
     num_hands |-> Len(hands)]

build_ctx(hand, hand_index, hands) ==
    [player_total |-> hand_value(hand.cards).total,
     player_soft |-> hand_value(hand.cards).is_soft,
     can_split |-> can_split(hand.cards),
     can_double |-> (Len(hand.cards) = 2),
     hand_index |-> hand_index,
     num_hands |-> Len(hands)]

\* play_round, lines 355-362: the steps after one policy invocation
\* variant: the record is appended whether or not logging was requested
append_step_always(log, steps, record) == Append(steps, record)

append_step(log, steps, record) ==
    IF log THEN Append(steps, record) ELSE steps

VARIABLES
    shoe,               \* the caller's shoe, mutated in place
    base_bet,           \* play_round argument
    log,                \* play_round argument
    player_hands,       \* state.player_hands
    dealer_cards,       \* state.dealer_cards
    initial_blackjack,  \* state.initial_blackjack
    logs,               \* state.logs["steps"]
    hand_index,         \* the cursor of the action loop
    ncalls,             \* number of policy invocations so far
    dealer_up,          \* play_round's local dealer_up (0 before the deal)
    policy_call,        \* the arguments of the latest policy invocation
    pc,                 \* position in play_round
    cards_arg,          \* the argument of a stand-alone hand_value call
    value_out,          \* what that call returned (None before the call)
    blackjack_out       \* what is_blackjack(cards_arg) returned (None before)

roundvars == <<shoe, base_bet, log, player_hands, dealer_cards,
               initial_blackjack, logs, hand_index, ncalls, dealer_up,
               policy_call>>

evalvars == <<cards_arg, value_out, blackjack_out>>

vars == <<roundvars, pc, evalvars>>

Init ==
    /\ \E in \in RoundInputs :
          /\ shoe = in[1]
          /\ base_bet = in[2]
          /\ log = in[3]
    /\ player_hands = <<>>
    /\ dealer_cards = <<>>
    /\ initial_blackjack = FALSE
    /\ logs = <<>>
    /\ hand_index = 0
    /\ ncalls = 0
    /\ dealer_up = 0
    /\ policy_call = None
    /\ pc = "start"
    /\ cards_arg = <<>>
    /\ value_out = None
    /\ blackjack_out = None

\* play_round, lines 290-321: the deal and the immediate blackjack check
Deal ==
    /\ UNCHANGED evalvars
    /\ pc = "start"
    /\ IF Len(shoe) < 4
       THEN /\ pc' = "exhausted"
            /\ shoe' = <<>>
            /\ UNCHANGED <<player_hands, dealer_cards, initial_blackjack,
                           dealer_up>>
       ELSE LET n == Len(shoe)
                player_cards == initial_deal(shoe).player_cards
                dealer == initial_deal(shoe).dealer_cards
                player_bj == is_blackjack(player_cards)
                dealer_has_bj == is_blackjack(dealer)
                player_hand == HandState(player_cards, base_bet, player_bj, FALSE)
            IN  /\ shoe' = SubSeq(shoe, 1, n - 4)
                /\ dealer_cards' = dealer
                /\ initial_blackjack' = player_bj
                /\ dealer_up' = dealer[1]
                /\ IF immediate_branch(player_bj, dealer_has_bj)
                   THEN /\ player_hands' =
                             <<[player_hand EXCEPT !.result =
                                  Some(immediate_result(player_bj, dealer_has_bj,
                                                        base_bet))]>>
                        /\ pc' = "returned"
                   ELSE /\ player_hands' = <<player_hand>>
                        /\ pc' = "hands"
    /\ UNCHANGED <<base_bet, log, logs, hand_index, ncalls, policy_call>>

\* play_round, lines 325-331: the test of the outer loop and the skip of a
\* hand that is already finished
NextHand ==
    /\ UNCHANGED evalvars
    /\ pc = "hands"
    /\ LET where == loop_position(player_hands, hand_index)
       IN  IF where = "done"
           THEN /\ pc' = "dealer"
                /\ UNCHANGED hand_index
           ELSE IF where = "skip"
           THEN /\ hand_index' = hand_index + 1
                /\ pc' = "hands"
           ELSE /\ pc' = "hand"
                /\ UNCHANGED hand_index
    /\ UNCHANGED <<shoe, base_bet, log, player_hands, dealer_cards,
                   initial_blackjack, logs, ncalls, dealer_up, policy_call>>

\* play_round, lines 334-400: one pass of the inner loop (bust check, policy
\* invocation, log record, action), the inner loop's exit test and, when the
\* inner loop is left, the cursor increment of line 400
Decide(answer) ==
    /\ UNCHANGED evalvars
    /\ pc = "hand"
    /\ LET hand == player_hands[hand_index + 1]
           v == hand_value(hand.cards)
       IN  IF v.total > 21
           THEN /\ player_hands' = [player_hands EXCEPT ![hand_index + 1] =
                                      [hand EXCEPT !.is_busted = TRUE,
                                                   !.is_finished = TRUE]]
                /\ hand_index' = hand_index + 1
                /\ pc' = "hands"
                /\ UNCHANGED <<shoe, logs, ncalls, policy_call>>
           ELSE LET ctx == build_ctx(hand, hand_index, player_hands)
                    action == upper(answer)
                    r == apply_policy_action(action, shoe, player_hands,
                                             hand_index)
                IN  /\ ncalls' = ncalls + 1
                    /\ policy_call' = Some([cards |-> hand.cards,
                                             dealer_up |-> dealer_up,
                                             ctx |-> ctx])
                    /\ logs' = append_step(log, logs,
                                           [hand_index |-> hand_index,
                                            cards |-> hand.cards,
                                            dealer_up |-> dealer_up,
                                            action |-> action,
                                            ctx |-> ctx])
                    /\ shoe' = r.shoe
                    /\ player_hands' = r.hands
                    /\ IF r.err
                       THEN /\ pc' = "exhausted"
                            /\ UNCHANGED hand_index
                       ELSE IF r.brk \/ r.hands[hand_index + 1].is_finished
                       THEN /\ hand_index' = hand_index + 1
                            /\ pc' = "hands"
                       ELSE /\ pc' = "hand"
                            /\ UNCHANGED hand_index
    /\ UNCHANGED <<base_bet, log, dealer_cards, initial_blackjack, dealer_up>>

\* play_round, lines 402-404: the dealer plays only if a hand is not busted
DealerPhase ==
    /\ UNCHANGED evalvars
    /\ pc = "dealer"
    /\ pc' = IF dealer_plays(player_hands) THEN "play_dealer" ELSE "settle"
    /\ UNCHANGED <<shoe, base_bet, log, player_hands, dealer_cards,
                   initial_blackjack, logs, hand_index, ncalls, dealer_up,
                   policy_call>>

\* play_dealer, lines 126-144: one pass of its loop, under the given value of
\* the module global DEALER_HITS_SOFT_17
play_dealer_pass(hits_soft_17) ==
    /\ UNCHANGED evalvars
    /\ pc = "play_dealer"
    /\ IF dealer_stops(hits_soft_17, dealer_cards)
       THEN /\ pc' = "settle"
            /\ UNCHANGED <<shoe, dealer_cards>>
       ELSE IF shoe = <<>>
       THEN /\ pc' = "exhausted"
            /\ UNCHANGED <<shoe, dealer_cards>>
       ELSE /\ dealer_cards' = Append(dealer_cards, draw_card(shoe).card)
            /\ shoe' = draw_card(shoe).shoe
            /\ pc' = "play_dealer"
    /\ UNCHANGED <<base_bet, log, player_hands, initial_blackjack, logs,
                   hand_index, ncalls, dealer_up, policy_call>>

\* play_dealer as play_round calls it, on the table as configured
DealerDraw == play_dealer_pass(DEALER_HITS_SOFT_17)

\* play_round, lines 406-410: settle all hands and return
Settle ==
    /\ UNCHANGED evalvars
    /\ pc = "settle"
    /\ player_hands' = settle_all(player_hands, dealer_cards)
    /\ pc' = "returned"
    /\ UNCHANGED <<shoe, base_bet, log, dealer_cards, initial_blackjack, logs,
                   hand_index, ncalls, dealer_up, policy_call>>

\* a caller's later call of settle_hand_vs_dealer on a hand of the returned
\* round, with dealer cards of its choice
Resettle(k, dealer) ==
    /\ UNCHANGED evalvars
    /\ pc = "returned"
    /\ k \in 1..Len(player_hands)
    /\ player_hands' = [player_hands EXCEPT
                          ![k] = settle_hand_vs_dealer(player_hands[k], dealer)]
    /\ UNCHANGED <<shoe, base_bet, log, dealer_cards, initial_blackjack, logs,
                   hand_index, ncalls, dealer_up, policy_call, pc>>

Next ==
    \/ Deal
    \/ NextHand
    \/ \E answer \in PolicyAnswers : Decide(answer)
    \/ DealerPhase
    \/ DealerDraw
    \/ Settle
    \/ \E k \in 1..4, dealer \in DealerCardsArgs : Resettle(k, dealer)

Spec == Init /\ [][Next]_vars

\* ---- the round as a running program ----
\* the rounds played to their end: every shoe of up to MaxFairShoe cards and
\* the shoes of one rank, with the default bet and no log
InitFair ==
    /\ shoe \in SeqsUpTo(Ranks, MaxFairShoe) \cup SameRankShoes
    /\ base_bet = 2
    /\ log = FALSE
    /\ player_hands = <<>>
    /\ dealer_cards = <<>>
    /\ initial_blackjack = FALSE
    /\ logs = <<>>
    /\ hand_index = 0
    /\ ncalls = 0
    /\ dealer_up = 0
    /\ policy_call = None
    /\ pc = "start"
    /\ cards_arg = <<>>
    /\ value_out = None
    /\ blackjack_out = None

\* a step of play_round itself (a caller's later call is not one)
PlayStep ==
    \/ Deal
    \/ NextHand
    \/ \E answer \in PolicyAnswers : Decide(answer)
    \/ DealerPhase
    \/ DealerDraw
    \/ Settle

\* play_round is sequential code and the policy returns from every call, so
\* the round takes its next step whenever it has one
SpecFair == InitFair /\ [][Next]_vars /\ WF_vars(PlayStep)

\* ---- the hand evaluator called on its own ----
InitEval ==
    /\ cards_arg \in SeqsUpTo(AllRanks, MaxHand)
    /\ value_out = None
    /\ blackjack_out = None
    /\ pc = "eval"
    /\ shoe = <<>>
    /\ base_bet = 2
    /\ log = FALSE
    /\ player_hands = <<>>
    /\ dealer_cards = <<>>
    /\ initial_blackjack = FALSE
    /\ logs = <<>>
    /\ hand_index = 0
    /\ ncalls = 0
    /\ dealer_up = 0
    /\ policy_call = None

\* one call of hand_value
Evaluate ==
    /\ pc = "eval"
    /\ value_out = None
    /\ value_out' = Some(hand_value(cards_arg))
    /\ UNCHANGED <<roundvars, pc, cards_arg, blackjack_out>>

\* one call of is_blackjack
EvaluateBlackjack ==
    /\ pc = "eval"
    /\ blackjack_out = None
    /\ blackjack_out' = Some(is_blackjack(cards_arg))
    /\ UNCHANGED <<roundvars, pc, cards_arg, value_out>>

NextEval ==
    \/ Evaluate
    \/ EvaluateBlackjack

SpecEval == InitEval /\ [][NextEval]_vars

\* ---- play_dealer called on its own on a table configured to H17 ----
\* pc = "settle" here means that play_dealer has returned
InitH17 ==
    /\ dealer_cards \in {c \in SeqsUpTo(AllRanks, 2) : Len(c) = 2}
    /\ shoe \in SeqsUpTo(DealerShoeRanks, MaxDealerShoe)
    /\ pc = "play_dealer"
    /\ base_bet = 2
    /\ log = FALSE
    /\ player_hands = <<>>
    /\ initial_blackjack = FALSE
    /\ logs = <<>>
    /\ hand_index = 0
    /\ ncalls = 0
    /\ dealer_up = 0
    /\ policy_call = None
    /\ cards_arg = <<>>
    /\ value_out = None
    /\ blackjack_out = None

\* one pass of play_dealer's loop with DEALER_HITS_SOFT_17 set to True
DealerDrawH17 == play_dealer_pass(TRUE)

NextH17 == DealerDrawH17

SpecH17 == InitH17 /\ [][NextH17]_vars

TypeOK ==
    /\ pc \in {"start", "hands", "hand", "dealer", "play_dealer", "settle",
               "returned", "exhausted", "eval"}
    /\ hand_index \in 0..Len(player_hands)

\* ---- vocabulary of the properties ----
Hands == 1..Len(player_hands)

Total(cards) == hand_value(cards).total

\* one Ace and one ten-valued card, in either order
IsNaturalPair(cards) == cards \in {<<10, 11>>, <<11, 10>>}

\* the cards the deal will give, read off the end of the shoe
DealtPlayer == <<shoe[Len(shoe)], shoe[Len(shoe) - 1]>>

DealtDealer == <<shoe[Len(shoe) - 2], shoe[Len(shoe) - 3]>>

NaturalDeal ==
    /\ pc = "start"
    /\ Len(shoe) >= 4
    /\ (IsNaturalPair(DealtPlayer) \/ IsNaturalPair(DealtDealer))

\* the hand the cursor is on
ActingHand == player_hands[hand_index + 1]

\* this step performed a split
SplitAccepted ==
    /\ pc = "hand"
    /\ Len(player_hands') = Len(player_hands) + 1

\* the result the settlement order gives a hand: the first rule that matches
SettlementRule(hand, dealer) ==
    IF hand.is_busted THEN -hand.bet
    ELSE IF Total(dealer) > 21 THEN hand.bet
    ELSE IF hand.is_blackjack /\ ~(Len(dealer) = 2 /\ Total(dealer) = 21)
    THEN (3 * hand.bet) \div 2
    ELSE IF Total(hand.cards) > Total(dealer) THEN hand.bet
    ELSE IF Total(hand.cards) < Total(dealer) THEN -hand.bet
    ELSE 0

\* C1: in the settlement step every hand without a result gets the result of
\* the first matching rule: busted -> -bet; dealer over 21 -> +bet; flagged
\* natural against a dealer that is not a two-card 21 -> +1.5 bet; otherwise
\* the comparison of the totals.
C1_SettlementRule ==
    [][pc = "settle" =>
         \A k \in Hands :
            player_hands[k].result = None =>
               /\ Len(player_hands') = Len(player_hands)
               /\ player_hands'[k].result =
                     Some(SettlementRule(player_hands[k], dealer_cards))]_vars

\* a round in which the dealer busted, a busted hand lost its bet and a
\* flagged natural won only its bet
C1_BustedAndNaturalAgainstDealerBust ==
    /\ pc = "returned"
    /\ Total(dealer_cards) > 21
    /\ \E k \in Hands : /\ player_hands[k].is_busted
                        /\ player_hands[k].result = Some(-player_hands[k].bet)
    /\ \E j \in Hands : /\ player_hands[j].is_blackjack
                        /\ player_hands[j].result = Some(player_hands[j].bet)

\* C2: a deal with a natural on either side returns at once with the single
\* hand's result +1.5 base_bet (player only), -base_bet (dealer only) or 0
\* (both).
C2_ImmediatePayouts ==
    [][NaturalDeal =>
         /\ pc' = "returned"
         /\ Len(player_hands') = 1
         /\ player_hands'[1].result =
               Some(IF IsNaturalPair(DealtPlayer) /\ IsNaturalPair(DealtDealer)
                    THEN 0
                    ELSE IF IsNaturalPair(DealtPlayer)
                    THEN (3 * base_bet) \div 2
                    ELSE -base_bet)]_vars

\* both sides hold a natural and the hand is a push
C2_BothNaturalsPush ==
    /\ pc = "returned"
    /\ Len(player_hands) = 1
    /\ IsNaturalPair(player_hands[1].cards)
    /\ IsNaturalPair(dealer_cards)
    /\ player_hands[1].result = Some(0)
    /\ base_bet = 4

\* C3: in the immediate-settlement branch the policy is never invoked, the
\* log has no step, there is one player hand with its two dealt cards, the
\* dealer holds its two dealt cards and four cards left the shoe; the round
\* has returned, and nothing of this changes afterwards.
C3_ImmediateBranchNoAction ==
    [][/\ NaturalDeal =>
            /\ pc' = "returned"
            /\ ncalls' = 0
            /\ logs' = <<>>
            /\ Len(player_hands') = 1
            /\ player_hands'[1].cards = DealtPlayer
            /\ dealer_cards' = DealtDealer
            /\ shoe' = SubSeq(shoe, 1, Len(shoe) - 4)
       /\ pc = "returned" =>
            /\ pc' = "returned"
            /\ ncalls' = ncalls
            /\ logs' = logs
            /\ shoe' = shoe
            /\ dealer_cards' = dealer_cards
            /\ Len(player_hands') = Len(player_hands)
            /\ \A k \in Hands : player_hands'[k].cards = player_hands[k].cards
      ]_vars

\* a logged round ended by the dealer's natural alone: the bet is lost and
\* the log is empty
C3_DealerNaturalLoggedRound ==
    /\ pc = "returned"
    /\ log
    /\ IsNaturalPair(dealer_cards)
    /\ Len(player_hands) = 1
    /\ ~IsNaturalPair(player_hands[1].cards)
    /\ player_hands[1].result = Some(-base_bet)
    /\ logs = <<>>
    /\ ncalls = 0

\* C4: after a split of a non-Ace pair the cursor stays on the acting hand,
\* which is the hand the policy is consulted for next.
C4_SplitKeepsCursor ==
    [][(SplitAccepted /\ ActingHand.cards[1] # 11) =>
         /\ hand_index' = hand_index
         /\ pc' \in {"hand", "hands"}]_vars

\* C5: every hand the cursor has passed is finished, so every hand is
\* finished once the action loop has ended.
C5_FinishedBeforeAdvance ==
    /\ pc \in {"hands", "hand"} =>
          \A k \in 1..hand_index : player_hands[k].is_finished
    /\ pc \in {"dealer", "play_dealer", "settle"} =>
          \A k \in Hands : player_hands[k].is_finished

\* C6: an answer P on a hand that is no pair, or is a pair with the split cap
\* reached, acts as a hit: one card is drawn onto the hand (an empty shoe
\* raises the exhaustion error), the hand list keeps its length, the hand is
\* busted and finished iff its new total exceeds 21 and otherwise stays the
\* hand the policy is consulted for.
C6_InvalidSplitIsHit ==
    [][\A a \in PolicyAnswers :
         (/\ pc = "hand"
          /\ upper(a) = "P"
          /\ Total(ActingHand.cards) <= 21
          /\ \/ ~can_split(ActingHand.cards)
             \/ existing_splits(player_hands) >= MAX_SPLITS
          /\ Decide(a))
         => IF shoe = <<>> THEN pc' = "exhausted"
            ELSE LET cards == Append(ActingHand.cards, shoe[Len(shoe)])
                     h == player_hands'[hand_index + 1]
                 IN  /\ shoe' = SubSeq(shoe, 1, Len(shoe) - 1)
                     /\ Len(player_hands') = Len(player_hands)
                     /\ h.cards = cards
                     /\ h.is_busted = (Total(cards) > 21)
                     /\ h.is_finished = (Total(cards) > 21)
                     /\ ~h.is_finished =>
                           (pc' = "hand" /\ hand_index' = hand_index)]_vars

\* C7: a split request on a pair is accepted whenever fewer than three splits
\* have been performed in the round (each split adds one hand to the one
\* dealt) and the shoe holds the two cards it draws.
C7_ThreeSplitsAccepted ==
    [][\A a \in PolicyAnswers :
         (/\ pc = "hand"
          /\ upper(a) = "P"
          /\ can_split(ActingHand.cards)
          /\ Len(player_hands) - 1 < MAX_SPLITS
          /\ Len(shoe) >= 2
          /\ Decide(a))
         => Len(player_hands') = Len(player_hands) + 1]_vars

\* C8: when play_round has returned, every hand has a result.
C8_AllHandsSettled ==
    pc = "returned" => \A k \in Hands : player_hands[k].result # None

\* a returned round with a split, in which a hand that never finished holds
\* a result
C8_SplitRoundSettled ==
    /\ pc = "returned"
    /\ Len(player_hands) >= 2
    /\ \E k \in Hands : /\ ~player_hands[k].is_finished
                        /\ player_hands[k].from_split
                        /\ player_hands[k].result # None

\* C9: a hand whose result is set never changes again, whatever is called on
\* it.
C9_ResultWriteOnce ==
    [][\A k \in Hands :
         player_hands[k].result # None =>
            /\ Len(player_hands') = Len(player_hands)
            /\ player_hands'[k] = player_hands[k]]_vars

\* a settled hand and dealer cards for which the settlement rules would give
\* another result than the stored one
C9_ResettleWouldDiffer ==
    /\ pc = "returned"
    /\ \E k \in Hands, dealer \in DealerCardsArgs :
          /\ player_hands[k].result # None
          /\ player_hands[k].result #
                Some(SettlementRule(player_hands[k], dealer))

\* C10: the hands of an Ace split are marked split-ace; a split-ace hand is
\* one of exactly two hands, is finished, holds the Ace and one more card,
\* and is never the hand the policy is consulted for.
C10_AceSplit ==
    \A k \in Hands :
       LET h == player_hands[k]
       IN  /\ (h.from_split /\ h.cards[1] = 11 /\ Len(player_hands) > 1)
                 => h.is_split_ace
           /\ h.is_split_ace =>
                 /\ Len(player_hands) = 2
                 /\ h.is_finished
                 /\ Len(h.cards) = 2
                 /\ h.cards[1] = 11
                 /\ ~(pc = "hand" /\ hand_index + 1 = k)

\* a returned round whose two hands both come from the Ace split, after the
\* one policy answer that asked for it
C10_AcesWereSplit ==
    /\ pc = "returned"
    /\ Len(player_hands) = 2
    /\ \A k \in Hands : player_hands[k].is_split_ace
    /\ ncalls = 1

\* C11: an answer D on a hand of exactly two cards doubles the bet, draws
\* one card onto the hand, sets is_busted iff the new total exceeds 21 and
\* finishes the hand with three cards; so also on a hand made by a split.
C11_ValidDouble ==
    [][\A a \in PolicyAnswers :
         (/\ pc = "hand"
          /\ upper(a) = "D"
          /\ Len(ActingHand.cards) = 2
          /\ shoe # <<>>
          /\ Decide(a))
         => LET cards == Append(ActingHand.cards, shoe[Len(shoe)])
                h == player_hands'[hand_index + 1]
            IN  /\ Len(player_hands') = Len(player_hands)
                /\ shoe' = SubSeq(shoe, 1, Len(shoe) - 1)
                /\ h.bet = 2 * ActingHand.bet
                /\ h.cards = cards
                /\ Len(h.cards) = 3
                /\ h.is_busted = (Total(cards) > 21)
                /\ h.is_finished
                /\ \A k \in Hands : k # hand_index + 1 =>
                      player_hands'[k] = player_hands[k]]_vars

\* a hand made by a split was doubled and did not bust
C11_DoubledAfterSplit ==
    \E k \in Hands :
       /\ player_hands[k].from_split
       /\ player_hands[k].bet = 2 * base_bet
       /\ Len(player_hands[k].cards) = 3
       /\ player_hands[k].is_finished
       /\ ~player_hands[k].is_busted

\* C12: an answer D on a hand of three or more cards is a hit: one card is
\* drawn, the bet is unchanged and the hand is finished (and busted) only if
\* its new total exceeds 21.
C12_InvalidDoubleIsHit ==
    [][\A a \in PolicyAnswers :
         (/\ pc = "hand"
          /\ upper(a) = "D"
          /\ Len(ActingHand.cards) >= 3
          /\ Total(ActingHand.cards) <= 21
          /\ shoe # <<>>
          /\ Decide(a))
         => LET cards == Append(ActingHand.cards, shoe[Len(shoe)])
                h == player_hands'[hand_index + 1]
            IN  /\ Len(player_hands') = Len(player_hands)
                /\ shoe' = SubSeq(shoe, 1, Len(shoe) - 1)
                /\ h.bet = ActingHand.bet
                /\ h.cards = cards
                /\ h.is_busted = (Total(cards) > 21)
                /\ h.is_finished = (Total(cards) > 21)
                /\ ~h.is_finished =>
                      (pc' = "hand" /\ hand_index' = hand_index)]_vars

\* the log shows a D answered on three cards; the hand got a fourth card,
\* kept its bet and is still open
C12_DoubleOnThreeCardsHit ==
    /\ log
    /\ \E n \in 1..Len(logs) :
          /\ logs[n].action = "D"
          /\ Len(logs[n].cards) = 3
          /\ LET h == player_hands[logs[n].hand_index + 1]
             IN  /\ Len(h.cards) = 4
                 /\ h.bet = base_bet
                 /\ ~h.is_finished

\* C13: an answer R, or any answer other than H, S, D, P, does what S does:
\* the hand is marked finished and nothing else of it changes, no card is
\* drawn, the hand list and the dealer are unchanged and the cursor moves
\* on; without the log the step is the very step of an answer S.  No result
\* is ever half a bet lost.
C13_SurrenderAndUnknownAreStand ==
    [][/\ \A a \in PolicyAnswers :
            (/\ pc = "hand"
             /\ upper(a) \notin {"H", "S", "D", "P"}
             /\ Total(ActingHand.cards) <= 21
             /\ Decide(a))
            => /\ player_hands' =
                     [player_hands EXCEPT ![hand_index + 1].is_finished = TRUE]
               /\ shoe' = shoe
               /\ dealer_cards' = dealer_cards
               /\ hand_index' = hand_index + 1
               /\ pc' = "hands"
               /\ ~log => Decide("S")
       /\ \A k \in 1..Len(player_hands') :
             player_hands'[k].result #
                Some(-(player_hands'[k].bet \div 2))]_vars

\* a logged round in which the only answer was R and the hand was settled
\* as if it had stood
C13_SurrenderSettledAsStand ==
    /\ pc = "returned"
    /\ log
    /\ Len(logs) = 1
    /\ logs[1].action = "R"
    /\ Len(player_hands) = 1
    /\ Len(player_hands[1].cards) = 2
    /\ player_hands[1].bet = base_bet
    /\ player_hands[1].result =
          Some(SettlementRule(player_hands[1], dealer_cards))

AllBusted == \A k \in Hands : player_hands[k].is_busted

\* C14: the dealer's loop is entered only with a hand that is not busted;
\* once the action loop has ended with every hand busted, the dealer keeps
\* its two dealt cards and no card leaves the shoe.
C14_DealerPhaseGuard ==
    [][/\ pc' = "play_dealer" =>
            \E k \in 1..Len(player_hands') : ~player_hands'[k].is_busted
       /\ (pc \in {"dealer", "play_dealer", "settle", "returned"}
              /\ ncalls > 0 /\ AllBusted)
            => /\ Len(dealer_cards) = 2
               /\ dealer_cards' = dealer_cards
               /\ shoe' = shoe]_vars

\* the only hand busted, the dealer would have had to draw and cards were
\* left, yet the dealer holds its two cards at the return
C14_DealerSkipped ==
    /\ pc = "returned"
    /\ AllBusted
    /\ Len(dealer_cards) = 2
    /\ Total(dealer_cards) < 17
    /\ shoe # <<>>

\* C15: whenever the dealer phase ran to its end the dealer's total is at
\* least 17, and in every state each proper prefix of the dealer's cards
\* (of two or more cards) totals less than 17: the dealer drew exactly while
\* below 17.
C15_DealerS17 ==
    /\ \A n \in 2..(Len(dealer_cards) - 1) :
          Total(SubSeq(dealer_cards, 1, n)) < 17
    /\ (pc \in {"settle", "returned"} /\ ncalls > 0 /\ ~AllBusted)
          => Total(dealer_cards) >= 17

\* the dealer phase ran on a soft 17 and the dealer drew nothing, though
\* cards were left
C15_DealerStoodOnSoft17 ==
    /\ pc = "returned"
    /\ ncalls > 0
    /\ ~AllBusted
    /\ Len(dealer_cards) = 2
    /\ hand_value(dealer_cards).total = 17
    /\ hand_value(dealer_cards).is_soft
    /\ shoe # <<>>

\* the cards an answer makes the engine draw
CardsDrawnBy(action, hand, hands) ==
    CASE action = "H" -> IF hand.is_split_ace THEN 0 ELSE 1
      [] action = "D" -> 1
      [] action = "P" ->
           IF ~can_split(hand.cards) THEN 1
           ELSE IF existing_splits(hands) >= MAX_SPLITS THEN 0 ELSE 2
      [] OTHER -> 0

\* C16: a draw attempted on an empty shoe (in the deal, a hit, a double, a
\* split or the dealer's play) aborts the round; an aborted round takes no
\* further step, so it never returns; the abort happens only with the shoe
\* empty, and the shoe never grows.
C16_ExhaustionIsFatal ==
    [][/\ pc # "exhausted"
       /\ Len(shoe') <= Len(shoe)
       /\ pc' = "exhausted" => shoe' = <<>>
       /\ (pc = "start" /\ Len(shoe) < 4) => pc' = "exhausted"
       /\ \A a \in PolicyAnswers :
             (/\ pc = "hand"
              /\ Total(ActingHand.cards) <= 21
              /\ CardsDrawnBy(upper(a), ActingHand, player_hands) > Len(shoe)
              /\ Decide(a))
             => pc' = "exhausted"
       /\ (pc = "play_dealer" /\ Total(dealer_cards) < 17 /\ shoe = <<>>)
             => pc' = "exhausted"]_vars

\* the round was aborted in the dealer's play: the dealer drew once and
\* needed another card
C16_AbortedInDealerPlay ==
    /\ pc = "exhausted"
    /\ shoe = <<>>
    /\ Len(dealer_cards) = 3
    /\ Total(dealer_cards) < 17

\* C17: every card that leaves the shoe leaves it at its end: what remains
\* is the shoe's front part, in order.  A single draw (a hit, the dealer's
\* draw) takes exactly the last card and gives it to the hand that drew; on
\* an empty shoe it fails and the shoe stays empty.
C17_DrawFromTheEnd ==
    [][/\ Len(shoe') <= Len(shoe)
       /\ shoe' = SubSeq(shoe, 1, Len(shoe'))
       /\ (pc = "play_dealer" /\ Total(dealer_cards) < 17) =>
             IF shoe = <<>>
             THEN pc' = "exhausted" /\ shoe' = <<>>
                  /\ dealer_cards' = dealer_cards
             ELSE /\ dealer_cards' = Append(dealer_cards, shoe[Len(shoe)])
                  /\ shoe' = SubSeq(shoe, 1, Len(shoe) - 1)
       /\ \A a \in PolicyAnswers :
             (/\ pc = "hand"
              /\ upper(a) = "H"
              /\ ~ActingHand.is_split_ace
              /\ Total(ActingHand.cards) <= 21
              /\ Decide(a))
             => IF shoe = <<>>
                THEN pc' = "exhausted" /\ shoe' = <<>>
                     /\ player_hands' = player_hands
                ELSE /\ player_hands'[hand_index + 1].cards =
                           Append(ActingHand.cards, shoe[Len(shoe)])
                     /\ shoe' = SubSeq(shoe, 1, Len(shoe) - 1)]_vars

\* the dealer has drawn one card from a shoe that still holds cards of two
\* ranks
C17_DealerDrewFromMixedShoe ==
    /\ pc = "play_dealer"
    /\ Len(dealer_cards) = 3
    /\ Len(shoe) >= 2
    /\ shoe[1] # shoe[Len(shoe)]

\* the round of the end-to-end scenario: one player hand whose first cards
\* are 10, 6 against the dealer's 7, 9
ScenarioDealt ==
    /\ Len(player_hands) = 1
    /\ SubSeq(player_hands[1].cards, 1, 2) = <<10, 6>>
    /\ Len(dealer_cards) >= 2
    /\ SubSeq(dealer_cards, 1, 2) = <<7, 9>>

\* the policy ended the hand at its first decision without a card
StoodAtOnce ==
    /\ ncalls = 1
    /\ Len(player_hands[1].cards) = 2
    /\ player_hands[1].is_finished

\* the size of the shoe the (single-hand) round started with
CardsInRound ==
    Len(shoe) + Len(dealer_cards) + Len(player_hands[1].cards)

RoundEnded == pc \in {"returned", "exhausted"}

\* what the scenario promises of the ended round
ScenarioOutcome ==
    /\ pc = "returned"
    /\ Total(player_hands[1].cards) = 16
    /\ player_hands[1].bet = base_bet
    /\ Len(dealer_cards) >= 3
    /\ Total(dealer_cards) >= 17
    /\ Total(SubSeq(dealer_cards, 1, Len(dealer_cards) - 1)) < 17
    /\ player_hands[1].result \in {Some(-base_bet), Some(0), Some(base_bet)}
    /\ player_hands[1].result =
          Some(IF Total(dealer_cards) > 21 THEN base_bet
               ELSE IF 16 > Total(dealer_cards) THEN base_bet
               ELSE IF 16 < Total(dealer_cards) THEN -base_bet
               ELSE 0)

\* C18 as stated: on the four-card shoe whose draws are 10, 6, 7, 9 the
\* player is dealt 10, 6 and the dealer 7, 9, and after a stand at the first
\* decision the round ends with the dealer drawn to 17 or more (or bust) and
\* the result one of -1, 0, +1 bets as the comparison gives.
C18_ScenarioOnFourCards ==
    /\ [][(pc = "start" /\ shoe = <<9, 7, 6, 10>>) =>
             /\ pc' = "hands"
             /\ Len(player_hands') = 1
             /\ player_hands'[1].cards = <<10, 6>>
             /\ dealer_cards' = <<7, 9>>]_vars
    /\ []((ScenarioDealt /\ StoodAtOnce /\ RoundEnded /\ CardsInRound = 4)
             => ScenarioOutcome)

\* C18 amended: the same on a shoe that holds at least one further card
\* beneath the four.
C18_ScenarioWithFurtherCard ==
    /\ [][(pc = "start" /\ Len(shoe) >= 5
              /\ SubSeq(shoe, Len(shoe) - 3, Len(shoe)) = <<9, 7, 6, 10>>) =>
             /\ pc' = "hands"
             /\ Len(player_hands') = 1
             /\ player_hands'[1].cards = <<10, 6>>
             /\ dealer_cards' = <<7, 9>>]_vars
    /\ []((ScenarioDealt /\ StoodAtOnce /\ RoundEnded /\ CardsInRound >= 5)
             => ScenarioOutcome)

\* the scenario round returned with the dealer busted by the fifth card and
\* the hand paid one bet
C18_ScenarioDealerBusts ==
    /\ ScenarioDealt
    /\ StoodAtOnce
    /\ pc = "returned"
    /\ CardsInRound = 5
    /\ Total(dealer_cards) > 21
    /\ player_hands[1].result = Some(base_bet)

\* ---- reference values of a hand, by counting each Ace as 1 or as 11 ----
\* the total with every Ace counted as 1
LowTotal(cards) ==
    sum([k \in 1..Len(cards) |-> IF cards[k] = 11 THEN 1 ELSE cards[k]])

NumAces(cards) == Cardinality({k \in 1..Len(cards) : cards[k] = 11})

\* the totals of at most 21 with n of the Aces counted as 11
FittingTotals(cards, n) ==
    {t \in {LowTotal(cards) + 10 * k : k \in n..NumAces(cards)} : t <= 21}

BestTotal(cards) ==
    IF FittingTotals(cards, 0) = {} THEN LowTotal(cards)
    ELSE CHOOSE t \in FittingTotals(cards, 0) :
            \A u \in FittingTotals(cards, 0) : u <= t

\* C19: hand_value returns the largest total of at most 21 reachable by
\* counting Aces as 1 or 11 (the total with every Ace as 1 if there is
\* none), and is_soft iff an Ace is still counted as 11 in it and it is at
\* most 21; [11,6] gives (17, soft) and [11,6,10] gives (17, not soft).
C19_HandValueReference ==
    value_out # None =>
       /\ value_out[1].total = BestTotal(cards_arg)
       /\ value_out[1].is_soft =
             (BestTotal(cards_arg) > LowTotal(cards_arg)
                 /\ BestTotal(cards_arg) <= 21)
       /\ cards_arg = <<11, 6>> =>
             value_out[1] = [total |-> 17, is_soft |-> TRUE]
       /\ cards_arg = <<11, 6, 10>> =>
             value_out[1] = [total |-> 17, is_soft |-> FALSE]

\* hand_value was called on [11,6,10] and returned a hard 17
C19_HardSeventeen ==
    /\ cards_arg = <<11, 6, 10>>
    /\ value_out = Some([total |-> 17, is_soft |-> FALSE])

\* C20 as stated: is_soft is true iff the total with every Ace counted as 11
\* exceeds 21 and at least one Ace can be counted as 11 within 21.
C20_SoftIffOverflowAndAceFits ==
    value_out # None =>
       (value_out[1].is_soft <=>
           (sum(cards_arg) > 21 /\ FittingTotals(cards_arg, 1) # {}))

\* C20 amended: is_soft is true iff at least one Ace can be counted as 11
\* with the total staying at most 21.
C20_SoftIffAceFits ==
    value_out # None =>
       (value_out[1].is_soft <=> FittingTotals(cards_arg, 1) # {})

\* hand_value was called on [11,6], whose total with the Ace as 11 is 17,
\* and returned soft
C20_SoftWithoutOverflow ==
    /\ cards_arg = <<11, 6>>
    /\ value_out # None
    /\ value_out[1].is_soft
    /\ sum(cards_arg) <= 21

\* C21: is_blackjack returns true iff the hand has exactly two cards whose
\* best total is 21, which is iff the hand is an Ace and a ten in either
\* order; for a hand of any other length it returns false.
C21_NaturalIffAceAndTen ==
    blackjack_out # None =>
       /\ blackjack_out[1] =
             (Len(cards_arg) = 2 /\ BestTotal(cards_arg) = 21)
       /\ blackjack_out[1] = IsNaturalPair(cards_arg)
       /\ Len(cards_arg) # 2 => blackjack_out[1] = FALSE

\* is_blackjack was called on the three-card 21 [7,7,7] and returned false
C21_ThreeSevens ==
    /\ cards_arg = <<7, 7, 7>>
    /\ BestTotal(cards_arg) = 21
    /\ blackjack_out = Some(FALSE)

\* this step invokes the policy
PolicyInvoked == pc = "hand" /\ Total(ActingHand.cards) <= 21

\* C22: with logging requested every policy invocation appends exactly one
\* record, after the records of the earlier invocations, holding the cursor,
\* the cards the hand had when the policy was asked, the dealer's upcard, the
\* upper-cased answer and the context the policy was given; a step without
\* a policy invocation appends nothing and no record ever changes, so the
\* log has one record per invocation; without logging there is never a
\* record.
C22_DecisionLog ==
    /\ [][/\ \A a \in PolicyAnswers :
               (PolicyInvoked /\ log /\ Decide(a)) =>
                  /\ logs' = Append(logs,
                                [hand_index |-> hand_index,
                                 cards |-> ActingHand.cards,
                                 dealer_up |-> dealer_cards[1],
                                 action |-> upper(a),
                                 ctx |-> policy_call'[1].ctx])
                  /\ upper(a) \notin {"h", "p", "x"}
          /\ PolicyInvoked => ncalls' = ncalls + 1
          /\ ~PolicyInvoked => (logs' = logs /\ ncalls' = ncalls)
          /\ ~log => logs' = <<>>
          /\ Len(logs') >= Len(logs)
          /\ \A n \in 1..Len(logs) : logs'[n] = logs[n]]_vars
    /\ [](Len(logs) = IF log THEN ncalls ELSE 0)

\* a logged round with two invocations: the first record holds the two
\* cards on which H was answered, and the hand has grown since
C22_SnapshotOlderThanHand ==
    /\ log
    /\ ncalls = 2
    /\ Len(logs) = 2
    /\ logs[1].action = "H"
    /\ Len(logs[1].cards) = 2
    /\ Len(player_hands[logs[1].hand_index + 1].cards) >= 3
    /\ logs[2].cards = player_hands[logs[1].hand_index + 1].cards

\* the position that the hand at position k of the new hand list had before
\* the step (0 for the hand the deal or a split has just made)
HandBefore(k) ==
    IF pc = "start" THEN 0
    ELSE IF ~SplitAccepted \/ k <= hand_index + 1 THEN k
    ELSE IF k = hand_index + 2 THEN 0
    ELSE k - 1

HandAfter(k) == IF SplitAccepted /\ k > hand_index + 1 THEN k + 1 ELSE k

\* C24: a finished hand keeps its cards, bet, is_busted, is_blackjack,
\* is_split_ace and is_finished in every later step, whatever hand the step
\* acts on; only its result changes, and only from unset to set.
C24_FinishedHandsImmutable ==
    [][\A k \in Hands :
         player_hands[k].is_finished =>
            /\ HandAfter(k) <= Len(player_hands')
            /\ LET was == player_hands[k]
                   is == player_hands'[HandAfter(k)]
               IN  /\ is.cards = was.cards
                   /\ is.bet = was.bet
                   /\ is.is_busted = was.is_busted
                   /\ is.is_blackjack = was.is_blackjack
                   /\ is.is_split_ace = was.is_split_ace
                   /\ is.is_finished
                   /\ was.result # None => is.result = was.result]_vars

\* a returned round of two hands: the hand made by the split hit, stood on
\* three cards and was finished before the dealer drew; it lost without
\* being busted and still holds its three cards and the single bet
C24_StoodBeforeDealerDrew ==
    /\ pc = "returned"
    /\ Len(player_hands) = 2
    /\ Len(dealer_cards) >= 3
    /\ player_hands[2].is_finished
    /\ Len(player_hands[2].cards) = 3
    /\ ~player_hands[2].is_busted
    /\ player_hands[2].bet = base_bet
    /\ player_hands[2].result = Some(-player_hands[2].bet)

\* C25: a hand flagged is_blackjack holds exactly two cards totalling 21, in
\* every state of the round, and a hand of a returned round whose result is
\* 1.5 times its bet holds exactly two cards totalling 21.
C25_NaturalPayoutOnlyOnTwoCard21 ==
    \A k \in Hands :
       LET h == player_hands[k]
       IN  /\ h.is_blackjack =>
                (Len(h.cards) = 2 /\ Total(h.cards) = 21)
           /\ (pc = "returned" /\ h.result = Some((3 * h.bet) \div 2)) =>
                (Len(h.cards) = 2 /\ Total(h.cards) = 21)

\* C26: an answer P on a pair of rank r that the engine accepts (the count
\* of split-derived hands is below the cap) with two cards in the shoe draws
\* exactly two cards: the acting hand becomes [r, first card drawn], the new
\* hand right after it is [r, second card drawn] with the acting hand's bet,
\* both are marked split-derived with is_blackjack recomputed from their two
\* cards, the hand list is one longer and every other hand is unchanged and
\* keeps its place in the order.
C26_SplitEffects ==
    [][\A a \in PolicyAnswers :
         (/\ pc = "hand"
          /\ upper(a) = "P"
          /\ can_split(ActingHand.cards)
          /\ existing_splits(player_hands) < MAX_SPLITS
          /\ Len(shoe) >= 2
          /\ Decide(a))
         => LET i == hand_index + 1
                r == ActingHand.cards[1]
                n == Len(shoe)
                first == player_hands'[i]
                second == player_hands'[i + 1]
            IN  /\ Len(player_hands') = Len(player_hands) + 1
                /\ shoe' = SubSeq(shoe, 1, n - 2)
                /\ first.cards = <<r, shoe[n]>>
                /\ second.cards = <<r, shoe[n - 1]>>
                /\ first.bet = ActingHand.bet
                /\ second.bet = ActingHand.bet
                /\ first.from_split /\ second.from_split
                /\ first.is_blackjack = IsNaturalPair(first.cards)
                /\ second.is_blackjack = IsNaturalPair(second.cards)
                /\ \A k \in Hands \ {i} :
                      player_hands'[IF k < i THEN k ELSE k + 1] =
                         player_hands[k]]_vars

\* a second split has just been made: three hands, the first untouched by
\* it, the last two holding the rank of the pair and two different cards
\* drawn, one of them a natural by its two cards
C26_SecondSplitMade ==
    /\ pc = "hands"
    /\ Len(player_hands) = 3
    /\ hand_index = 2
    /\ player_hands[2].cards[1] = player_hands[3].cards[1]
    /\ player_hands[2].cards[2] # player_hands[3].cards[2]
    /\ Len(player_hands[2].cards) = 2
    /\ Len(player_hands[3].cards) = 2
    /\ player_hands[2].is_blackjack # player_hands[3].is_blackjack
    /\ \A k \in Hands : player_hands[k].from_split

\* C27: an answer H on an active hand that is no split-ace hand, with a card
\* in the shoe, draws exactly one card onto that hand and leaves its bet and
\* every other hand alone; the hand is busted and finished iff its new total
\* exceeds 21; otherwise it stays active, the cursor stays, and the next
\* step invokes the policy for the same hand with the enlarged cards.
C27_HitStep ==
    [][\A a \in PolicyAnswers :
         (/\ pc = "hand"
          /\ upper(a) = "H"
          /\ ~ActingHand.is_split_ace
          /\ ~ActingHand.is_finished
          /\ Total(ActingHand.cards) <= 21
          /\ shoe # <<>>
          /\ Decide(a))
         => LET cards == Append(ActingHand.cards, shoe[Len(shoe)])
                h == player_hands'[hand_index + 1]
            IN  /\ shoe' = SubSeq(shoe, 1, Len(shoe) - 1)
                /\ Len(player_hands') = Len(player_hands)
                /\ h.cards = cards
                /\ h.bet = ActingHand.bet
                /\ h.is_busted = (Total(cards) > 21)
                /\ h.is_finished = (Total(cards) > 21)
                /\ \A k \in Hands \ {hand_index + 1} :
                      player_hands'[k] = player_hands[k]
                /\ Total(cards) <= 21 =>
                      /\ pc' = "hand"
                      /\ hand_index' = hand_index
                      /\ PolicyInvoked'
                      /\ ActingHand' = h]_vars

\* the policy answered H on 20, the hand drew an Ace to a total of 21 and
\* the second invocation was for the same hand with its three cards
C27_HitToTwentyOne ==
    /\ ncalls = 2
    /\ policy_call # None
    /\ policy_call[1].ctx.hand_index = 0
    /\ policy_call[1].cards = <<10, 10, 11>>
    /\ policy_call[1].ctx.player_total = 21
    /\ Len(player_hands) = 1
    /\ player_hands[1].bet = base_bet

\* C28: the deal gives the first and second card drawn to the player's one
\* hand, in that order, and the third and fourth to the dealer; the third
\* card drawn is the upcard; for the rest of the round it is the first of
\* the dealer's cards and it is the upcard passed to every policy invocation
\* and written to every log record.
C28_DealOrderAndUpcard ==
    /\ [][/\ (pc = "start" /\ Len(shoe) >= 4) =>
               LET n == Len(shoe)
               IN  /\ Len(player_hands') = 1
                   /\ player_hands'[1].cards = <<shoe[n], shoe[n - 1]>>
                   /\ dealer_cards' = <<shoe[n - 2], shoe[n - 3]>>
                   /\ dealer_up' = shoe[n - 2]
                   /\ shoe' = SubSeq(shoe, 1, n - 4)
          /\ pc # "start" => dealer_up' = dealer_up
          /\ (pc # "start" /\ dealer_cards # <<>>) =>
                dealer_cards'[1] = dealer_cards[1]]_vars
    /\ [](dealer_cards # <<>> =>
            /\ dealer_cards[1] = dealer_up
            /\ policy_call # None => policy_call[1].dealer_up = dealer_up
            /\ \A n \in 1..Len(logs) : logs[n].dealer_up = dealer_up)

\* a returned round in which the dealer drew a third card and the policy
\* was asked three times: the upcard differs from the hole card and from
\* the player's cards, and is still the dealer's first card
C28_UpcardKept ==
    /\ pc = "returned"
    /\ Len(dealer_cards) >= 3
    /\ ncalls = 3
    /\ policy_call # None
    /\ policy_call[1].dealer_up = dealer_cards[1]
    /\ dealer_cards[1] # dealer_cards[2]
    /\ dealer_cards[1] # player_hands[1].cards[1]
    /\ dealer_cards[1] # player_hands[1].cards[2]

\* C29: every policy invocation is given the acting hand's cards and a
\* context computed from the state at that moment: player_total and
\* player_soft are hand_value of the cards, can_split says the hand is two
\* cards of equal rank (whatever the split cap), can_double says the hand
\* has two cards, hand_index is the cursor and num_hands the length of the
\* hand list; no other step invokes the policy, and no invocation ever
\* carries a total above 21.
C29_DecisionContext ==
    /\ [][IF PolicyInvoked
          THEN policy_call' =
                  Some([cards |-> ActingHand.cards,
                        dealer_up |-> dealer_up,
                        ctx |-> [player_total |-> BestTotal(ActingHand.cards),
                                 player_soft |->
                                    hand_value(ActingHand.cards).is_soft,
                                 can_split |->
                                    (/\ Len(ActingHand.cards) = 2
                                     /\ ActingHand.cards[1] =
                                           ActingHand.cards[2]),
                                 can_double |-> (Len(ActingHand.cards) = 2),
                                 hand_index |-> hand_index,
                                 num_hands |-> Len(player_hands)]])
          ELSE policy_call' = policy_call /\ ncalls' = ncalls]_vars
    /\ [](policy_call # None => policy_call[1].ctx.player_total <= 21)

\* the policy was asked about the third hand, a pair, with the split cap
\* reached: the context still says can_split
C29_PairAtTheCap ==
    /\ policy_call # None
    /\ policy_call[1].ctx.can_split
    /\ policy_call[1].ctx.hand_index = 2
    /\ policy_call[1].ctx.num_hands = 3
    /\ existing_splits(player_hands) >= MAX_SPLITS
    /\ Len(player_hands) = 3

\* an Ace of the hand counts 11 in its best total
Soft(cards) == BestTotal(cards) <= 21 /\ BestTotal(cards) > LowTotal(cards)

\* C30: on a table configured to H17 the dealer draws a card on every total
\* below 17 and on a soft 17 (an empty shoe aborts), and stops without
\* drawing on a bust, on a hard 17 and on every total above 17, soft or
\* hard; so the hand play_dealer returns is never a soft 17.
C30_DealerH17 ==
    /\ [][pc = "play_dealer" =>
            IF \/ BestTotal(dealer_cards) < 17
               \/ (BestTotal(dealer_cards) = 17 /\ Soft(dealer_cards))
            THEN IF shoe = <<>>
                 THEN pc' = "exhausted" /\ dealer_cards' = dealer_cards
                 ELSE /\ dealer_cards' =
                            Append(dealer_cards, shoe[Len(shoe)])
                      /\ shoe' = SubSeq(shoe, 1, Len(shoe) - 1)
                      /\ pc' = "play_dealer"
            ELSE /\ pc' = "settle"
                 /\ dealer_cards' = dealer_cards
                 /\ shoe' = shoe]_vars
    /\ [](pc = "settle" =>
            /\ ~(BestTotal(dealer_cards) = 17 /\ Soft(dealer_cards))
            /\ BestTotal(dealer_cards) >= 17)

\* play_dealer has returned a hard 17 of four cards whose first three cards
\* were a soft 17
C30_SoftSeventeenWasHit ==
    /\ pc = "settle"
    /\ Len(dealer_cards) = 4
    /\ BestTotal(SubSeq(dealer_cards, 1, 3)) = 17
    /\ Soft(SubSeq(dealer_cards, 1, 3))
    /\ BestTotal(dealer_cards) = 17
    /\ ~Soft(dealer_cards)

\* the phases of play_round in their order
Phase(p) ==
    CASE p = "start" -> 0
      [] p \in {"hands", "hand"} -> 1
      [] p = "dealer" -> 2
      [] p = "play_dealer" -> 3
      [] p = "settle" -> 4
      [] OTHER -> 5

NoResultYet == \A k \in Hands : player_hands[k].result = None

\* C31: the cursor never moves back and every policy invocation is for the
\* hand at the cursor, so the hand indices of the invocations never
\* decrease; the hand invoked for is not finished; an invocation happens
\* only in the action loop, before the dealer has drawn and before any hand
\* has a result; the dealer draws only in the dealer's play, before any
\* hand has a result; and the round never returns to an earlier phase.
C31_PlayOrder ==
    /\ [][/\ hand_index' >= hand_index
          /\ Phase(pc') >= Phase(pc)
          /\ ncalls' # ncalls =>
                /\ pc = "hand"
                /\ ~ActingHand.is_finished
                /\ policy_call'[1].ctx.hand_index = hand_index
                /\ Len(dealer_cards) = 2
                /\ NoResultYet
          /\ (pc # "start" /\ dealer_cards' # dealer_cards) =>
                /\ pc = "play_dealer"
                /\ NoResultYet
                /\ ncalls' = ncalls
          /\ (pc # "start" /\ ~NoResultYet) =>
                (ncalls' = ncalls /\ dealer_cards' = dealer_cards)]_vars
    /\ [](policy_call # None =>
            policy_call[1].ctx.hand_index <= hand_index)

\* a returned round: the policy was asked for hand 0 and later for hand 1,
\* then the dealer drew a card, then both hands were settled
C31_TwoHandsThenDealer ==
    /\ pc = "returned"
    /\ Len(player_hands) = 2
    /\ ncalls >= 2
    /\ policy_call # None
    /\ policy_call[1].ctx.hand_index = 1
    /\ Len(dealer_cards) >= 3
    /\ ~NoResultYet

CountIn(cards, r) == Cardinality({k \in 1..Len(cards) : cards[k] = r})

RECURSIVE CardsOfHands(_)
CardsOfHands(hands) ==
    IF hands = <<>> THEN <<>>
    ELSE hands[1].cards \o CardsOfHands(Tail(hands))

\* the cards that these hands and the dealer hold, in a row
InHandsOf(hands, dealer) == CardsOfHands(hands) \o dealer

\* the cards the shoe, the player's hands and the dealer hold, in a row
Held == shoe \o InHandsOf(player_hands, dealer_cards)

\* the cards the step took off the end of the shoe
Drawn == SubSeq(shoe, Len(shoe') + 1, Len(shoe))

\* two rows hold the same cards, each as often
SameCards(a, b) ==
    /\ Len(a) = Len(b)
    /\ \A r \in {a[k] : k \in 1..Len(a)} : CountIn(a, r) = CountIn(b, r)

\* C32 as stated: no step of a round changes the cards that the shoe, the
\* player's hands and the dealer hold together, as a multiset.
C32_CardsConserved ==
    [][SameCards(Held, Held')]_vars

\* C32 amended: no step, aborting or not, puts a card into the shoe: what
\* is left of the shoe is its front part; and every step that does not abort
\* the round conserves the cards: a step that draws nothing leaves the cards
\* of every hand as they are, and after a step that draws, the hands and the
\* dealer hold what they held plus the cards drawn, as a multiset.  (A deal
\* that aborts has emptied the shoe into no hand; a split that aborts at its
\* second draw has replaced the acting hand's second card by the card
\* drawn.)
C32_CardsConservedUnlessAborted ==
    [][/\ Len(shoe') <= Len(shoe)
       /\ shoe' = SubSeq(shoe, 1, Len(shoe'))
       /\ pc' # "exhausted" =>
             IF shoe' = shoe
             THEN /\ dealer_cards' = dealer_cards
                  /\ Len(player_hands') = Len(player_hands)
                  /\ \A k \in Hands :
                        player_hands'[k].cards = player_hands[k].cards
             ELSE \A after \in {InHandsOf(player_hands', dealer_cards')},
                     before \in {InHandsOf(player_hands, dealer_cards)
                                    \o Drawn} :
                     SameCards(after, before)]_vars

\* a returned round on a shoe of ten sixes after two splits and a dealer
\* draw: three hands of two cards and the dealer's three cards, one card
\* left in the shoe
C32_SplitsAndDealerDrew ==
    /\ pc = "returned"
    /\ Len(player_hands) = 3
    /\ Len(dealer_cards) = 3
    /\ Len(shoe) = 1
    /\ CountIn(Held, 6) = 10

\* C33: whatever the policy answers, the round ends: it returns with every
\* hand settled or it aborts with the shoe exhausted; and every policy
\* invocation is followed by a card leaving the shoe, the acting hand being
\* finished, the cursor moving on or the abort, so the action loop cannot
\* consult the policy for ever.
C33_RoundTerminates ==
    /\ <>(\/ pc = "exhausted"
          \/ (pc = "returned" /\ ~(\E k \in Hands :
                                      player_hands[k].result = None)))
    /\ [][PolicyInvoked =>
            \/ Len(shoe') < Len(shoe)
            \/ hand_index' > hand_index
            \/ pc' = "exhausted"
            \/ player_hands'[hand_index + 1].is_finished]_vars

\* the round on a shoe of sixes under the policy that always answers P has
\* returned: three invocations, the third on a pair at the split cap, three
\* hands, a card left in the shoe
C33_AlwaysSplitReturned ==
    /\ pc = "returned"
    /\ Len(player_hands) = 3
    /\ Len(shoe) >= 1
    /\ \A k \in Hands : player_hands[k].cards[1] = 6
    /\ policy_call # None
    /\ policy_call[1].ctx.can_split
    /\ policy_call[1].ctx.hand_index = 2
    /\ ncalls = 3

\* C34: in every state a player hand is marked busted iff its best total
\* exceeds 21; a busted hand is finished and holds at least three cards.
C34_BustFlagConsistent ==
    \A k \in Hands :
       LET h == player_hands[k]
       IN  /\ h.is_busted = (BestTotal(h.cards) > 21)
           /\ h.is_busted => (h.is_finished /\ Len(h.cards) >= 3)

\* two hands after a split: one went over 21 on a double and is busted, the
\* other holds its two cards and is not
C34_DoubledIntoBust ==
    /\ Len(player_hands) = 2
    /\ \E k \in Hands :
          /\ player_hands[k].is_busted
          /\ player_hands[k].bet = 2 * base_bet
          /\ Len(player_hands[k].cards) = 3
          /\ BestTotal(player_hands[k].cards) > 21
          /\ \E j \in Hands \ {k} :
                /\ ~player_hands[j].is_busted
                /\ Len(player_hands[j].cards) = 2
                /\ player_hands[j].from_split

====
